---- MODULE Spec2Model ----
(***************************************************************************)
(* Model of app.py: CurrencyConverter (rate fetch, conversion, popular     *)
(* rates), HistoryManager (the JSON history file) and the WebInterface     *)
(* GET routes.  The HTTPServer is single-threaded, so every request, and   *)
(* every direct call, is one atomic step.                                  *)
(*                                                                         *)
(* Floats are modelled as exact decimals with two places, held as an       *)
(* integer count of hundredths (1.0 is 100, 0.79 is 79).                   *)
(***************************************************************************)
EXTENDS Integers, Sequences, FiniteSets, TLC

VARIABLES file, exchange_rates, last_update, last, steps

vars == <<file, exchange_rates, last_update, last, steps>>

(***************************************************************************)
(* Program constants                                                       *)
(***************************************************************************)
HISTORY_LIMIT == 10

NDIGITS == 2

DEFAULT_AMOUNT == 1

CURRENCIES == {"USD", "EUR", "GBP", "JPY", "KRW", "CNY", "AUD", "CAD", "CHF", "INR"}

POPULAR == <<"EUR", "GBP", "JPY", "KRW", "CNY", "AUD">>

(***************************************************************************)
(* Bounds of the model                                                     *)
(***************************************************************************)
MaxInitLen == 2

MaxRequests == 1

(***************************************************************************)
(* Python values                                                           *)
(***************************************************************************)
None == <<>>

Some(v) == <<v>>

Float(n) == n * 100

EmptyDict == [c \in {} |-> 0]

PyList(items) == [type |-> "list", items |-> items]

PyDict == [type |-> "dict", items |-> <<>>]

Take(s, n) == SubSeq(s, 1, IF Len(s) < n THEN Len(s) ELSE n)

Pow10(n) == IF n = 0 THEN 1 ELSE IF n = 1 THEN 10 ELSE IF n = 2 THEN 100 ELSE 1000

RoundHalfEven(n, d) ==
    LET m   == IF n < 0 THEN 0 - n ELSE n
        q   == m \div d
        rem == m % d
        up  == (2 * rem > d) \/ (2 * rem = d /\ q % 2 = 1)
        r   == IF up THEN q + 1 ELSE q
    IN  IF n < 0 THEN 0 - r ELSE r

\* round(x, ndigits) of a product of two floats: x counts ten-thousandths,
\* the value returned counts hundredths.
Round(x, ndigits) ==
    LET unit == Pow10(4 - ndigits)
    IN  RoundHalfEven(x, unit) * Pow10(2 - ndigits)

(***************************************************************************)
(* The history file: absent, or present with a content that json.load      *)
(* rejects ("invalid"), parses as an array of records ("array"), or parses *)
(* as another JSON value ("object").                                       *)
(***************************************************************************)
Absent == [exists |-> FALSE, kind |-> "none", items |-> <<>>]

JsonDump(history) == [exists |-> TRUE, kind |-> "array", items |-> history]

\* json.load: <<raised, value>>
JsonLoad(f) ==
    IF f.kind = "array" THEN [raised |-> FALSE, value |-> PyList(f.items)]
    ELSE IF f.kind = "object" THEN [raised |-> FALSE, value |-> PyDict]
    ELSE [raised |-> TRUE, value |-> PyList(<<>>)]

(***************************************************************************)
(* HistoryManager                                                          *)
(***************************************************************************)
load_history(f) ==
    IF f.exists
    THEN LET r == JsonLoad(f)
         IN  IF r.raised THEN PyList(<<>>) ELSE r.value
    ELSE PyList(<<>>)

save_conversion_nocap(f, conversion) ==
    LET history == load_history(f)
    IN  IF history.type # "list"
        THEN [raised |-> "AttributeError", file |-> f, ret |-> PyList(<<>>)]
        ELSE LET inserted == <<conversion>> \o history.items
             IN  [raised |-> "", file |-> JsonDump(inserted), ret |-> PyList(inserted)]

save_conversion_keeps_tail(f, conversion) ==
    LET history == load_history(f)
    IN  IF history.type # "list"
        THEN [raised |-> "AttributeError", file |-> f, ret |-> PyList(<<>>)]
        ELSE LET inserted == <<conversion>> \o history.items
                 kept     == IF Len(inserted) <= HISTORY_LIMIT THEN inserted
                             ELSE SubSeq(inserted, Len(inserted) - HISTORY_LIMIT + 1, Len(inserted))
             IN  [raised |-> "", file |-> JsonDump(kept), ret |-> PyList(kept)]

save_conversion_append(f, conversion) ==
    LET history == load_history(f)
    IN  IF history.type # "list"
        THEN [raised |-> "AttributeError", file |-> f, ret |-> PyList(<<>>)]
        ELSE LET kept == Take(history.items \o <<conversion>>, HISTORY_LIMIT)
             IN  [raised |-> "", file |-> JsonDump(kept), ret |-> PyList(kept)]

save_conversion(f, conversion) ==
    LET history == load_history(f)
    IN  IF history.type # "list"
        THEN [raised |-> "AttributeError", file |-> f, ret |-> PyList(<<>>)]
        ELSE LET inserted == <<conversion>> \o history.items
                 kept     == Take(inserted, HISTORY_LIMIT)
             IN  [raised |-> "", file |-> JsonDump(kept), ret |-> PyList(kept)]

clear_history_keep(f) == [file |-> f, ret |-> PyList(<<>>)]

clear_history(f) ==
    [file |-> IF f.exists THEN Absent ELSE f, ret |-> PyList(<<>>)]

(***************************************************************************)
(* The rate provider.  A reply is a timeout, a connection error, an error  *)
(* status, a body that is not JSON, a JSON body that is not an object, an  *)
(* object without the rates field, or an object with it.  The rate table   *)
(* of a reply depends on the base currency of the URL and changes over     *)
(* time (variant).                                                         *)
(***************************************************************************)
RatesUSD ==
    ("USD" :> 100) @@ ("EUR" :> 92) @@ ("GBP" :> 79) @@ ("JPY" :> 14950) @@
    ("KRW" :> 130000) @@ ("CNY" :> 724) @@ ("AUD" :> 153) @@ ("SEK" :> 1045)

RatesEUR ==
    ("EUR" :> 100) @@ ("USD" :> 108) @@ ("GBP" :> 85) @@
    ("KRW" :> 140512) @@ ("SEK" :> 1130)

ProviderRates(base, variant) ==
    IF variant = "sparse" THEN ("KRW" :> (IF base = "EUR" THEN 140550 ELSE 130050))
    ELSE IF base = "EUR" THEN RatesEUR
    ELSE RatesUSD

Reply(kind, variant, time) ==
    [kind |-> kind, variant |-> variant, time |-> time]

ErrorText(reply) ==
    IF reply.kind = "timeout" THEN "Read timed out"
    ELSE IF reply.kind = "connection" THEN "Connection refused"
    ELSE IF reply.kind = "http_error" THEN "404 Client Error"
    ELSE "Expecting value"

(***************************************************************************)
(* CurrencyConverter                                                       *)
(***************************************************************************)
\* requests.get, raise_for_status and response.json raise a
\* RequestException on a timeout, a connection error and an error status.
\* response.json raises requests' JSONDecodeError, a RequestException, on a
\* body that is not JSON (requests 2.27 and later).  Indexing the parsed
\* body raises a TypeError or a KeyError, which the except clause lets through.
fetch_exchange_rates(self, base_currency, reply, now) ==
    LET unchanged(raised, ret) ==
            [raised |-> raised, ret |-> ret, exchange_rates |-> self.exchange_rates,
             last_update |-> self.last_update, gets |-> <<base_currency>>]
    IN  IF reply.kind \in {"timeout", "connection", "http_error", "not_json"}
        THEN unchanged("", <<FALSE, <<"Error fetching rates: ", ErrorText(reply)>> >>)
        ELSE IF reply.kind = "not_object" THEN unchanged("TypeError", None)
        ELSE IF reply.kind = "no_rates" THEN unchanged("KeyError", None)
        ELSE [raised |-> "", ret |-> <<TRUE, <<"Success">> >>,
              exchange_rates |-> ProviderRates(base_currency, reply.variant),
              last_update |-> IF reply.time # None THEN [src |-> "provider", val |-> reply.time[1]]
                              ELSE [src |-> "clock", val |-> now],
              gets |-> <<base_currency>>]

ConversionRecord(amount, from_currency, to_currency, rate, result, timestamp) ==
    [amount |-> amount, from |-> from_currency, to |-> to_currency,
     rate |-> rate, result |-> result, timestamp |-> timestamp]

\* convert, given what its call of fetch_exchange_rates did (fetched)
convert_after(fetched, amount, from_currency, to_currency, timestamp) ==
    LET out(ret) == [raised |-> fetched.raised, ret |-> ret, fetched |-> fetched.ret,
                     exchange_rates |-> fetched.exchange_rates,
                     last_update |-> fetched.last_update, gets |-> fetched.gets]
    IN  IF fetched.raised # "" THEN out(None)
        ELSE IF ~fetched.ret[1] THEN out(<<None, fetched.ret[2]>>)
        ELSE IF to_currency \notin DOMAIN fetched.exchange_rates
        THEN out(<<None, <<"Currency not found", to_currency>> >>)
        ELSE LET rate      == fetched.exchange_rates[to_currency]
                 converted == amount * rate
             IN  out(<<Some(ConversionRecord(amount, from_currency, to_currency, rate,
                                             Round(converted, NDIGITS), timestamp)),
                       <<"Success">> >>)

convert_truncating(self, amount, from_currency, to_currency, reply, clock) ==
    LET fetched == fetch_exchange_rates(self, from_currency, reply, clock[1])
        r       == convert_after(fetched, amount, from_currency, to_currency, clock[2])
        cut(rec) == [rec EXCEPT !.result =
                        IF rec.amount * rec.rate < 0
                        THEN 0 - ((0 - rec.amount * rec.rate) \div 100)
                        ELSE (rec.amount * rec.rate) \div 100]
    IN  IF r.ret # None /\ r.ret[1] # None
        THEN [r EXCEPT !.ret = <<Some(cut(r.ret[1][1])), r.ret[2]>>]
        ELSE r

convert_display_only(self, amount, from_currency, to_currency, reply, clock) ==
    LET fetched == fetch_exchange_rates(self, from_currency, reply, clock[1])
        r       == convert_after(fetched, amount, from_currency, to_currency, clock[2])
    IN  IF r.ret # None /\ r.ret[1] # None /\ to_currency \notin CURRENCIES
        THEN [r EXCEPT !.ret = <<None, <<"Currency not found", to_currency>> >>]
        ELSE r

convert(self, amount, from_currency, to_currency, reply, clock) ==
    convert_after(fetch_exchange_rates(self, from_currency, reply, clock[1]),
                  amount, from_currency, to_currency, clock[2])

RECURSIVE PopularLoop(_, _, _, _)
\* the for loop over popular[i..], rates being the dict built so far
PopularLoop(i, rates, base_currency, table) ==
    IF i > Len(POPULAR) THEN rates
    ELSE LET currency == POPULAR[i]
         IN  IF currency # base_currency /\ currency \in DOMAIN table
             THEN PopularLoop(i + 1, rates @@ (currency :> table[currency]), base_currency, table)
             ELSE PopularLoop(i + 1, rates, base_currency, table)

RECURSIVE PopularLoopWithBase(_, _, _, _)
PopularLoopWithBase(i, rates, base_currency, table) ==
    IF i > Len(POPULAR) THEN rates
    ELSE LET currency == POPULAR[i]
         IN  IF currency \in DOMAIN table
             THEN PopularLoopWithBase(i + 1, rates @@ (currency :> table[currency]), base_currency, table)
             ELSE PopularLoopWithBase(i + 1, rates, base_currency, table)

get_popular_rates_with_base(self, base_currency) ==
    PopularLoopWithBase(1, EmptyDict, base_currency, self.exchange_rates)

get_popular_rates(self, base_currency) ==
    PopularLoop(1, EmptyDict, base_currency, self.exchange_rates)

(***************************************************************************)
(* WebInterface.  A query holds each parameter as parse_qs gives it: the   *)
(* empty list when the parameter is missing, else a one-element list.  An  *)
(* amount is a string float() accepts (num) or one it rejects.             *)
(***************************************************************************)
Param(values, default) == IF values = <<>> THEN default ELSE values

Number(v) == [num |-> TRUE, val |-> v]

NotANumber == [num |-> FALSE, val |-> 0]

Handled(self, f, resp, raised, saves, gets, fetched) ==
    [file |-> f, exchange_rates |-> self.exchange_rates, last_update |-> self.last_update,
     resp |-> resp, raised |-> raised, saves |-> saves, gets |-> gets, fetched |-> fetched]

handle_convert_always_saves(self, f, query, reply, clock) ==
    LET text      == Param(query.amount, <<Number(Float(DEFAULT_AMOUNT))>>)[1]
        from_curr == Param(query.from, <<"USD">>)[1]
        to_curr   == Param(query.to, <<"KRW">>)[1]
    IN  IF ~text.num
        THEN Handled(self, f, None, "ValueError", <<>>, <<>>, None)
        ELSE LET c     == convert(self, text.val, from_curr, to_curr, reply, clock)
                 after == [exchange_rates |-> c.exchange_rates, last_update |-> c.last_update]
             IN  IF c.raised # ""
                 THEN Handled(after, f, None, c.raised, <<>>, c.gets, c.fetched)
                 ELSE LET result == IF c.ret[1] # None THEN c.ret[1][1]
                                    ELSE ConversionRecord(text.val, from_curr, to_curr, 0, 0, clock[2])
                          saved  == save_conversion(f, result)
                      IN  IF saved.raised # ""
                          THEN Handled(after, saved.file, None, saved.raised, <<result>>, c.gets, c.fetched)
                          ELSE IF c.ret[1] # None
                          THEN Handled(after, saved.file,
                                       Some([success |-> TRUE, result |-> result,
                                             popular_rates |-> get_popular_rates(after, from_curr),
                                             last_update |-> after.last_update]),
                                       "", <<result>>, c.gets, c.fetched)
                          ELSE Handled(after, saved.file,
                                       Some([success |-> FALSE, error |-> c.ret[2]]),
                                       "", <<result>>, c.gets, c.fetched)

handle_convert(self, f, query, reply, clock) ==
    LET text      == Param(query.amount, <<Number(Float(DEFAULT_AMOUNT))>>)[1]
        from_curr == Param(query.from, <<"USD">>)[1]
        to_curr   == Param(query.to, <<"KRW">>)[1]
    IN  IF ~text.num
        THEN Handled(self, f, None, "ValueError", <<>>, <<>>, None)
        ELSE LET c     == convert(self, text.val, from_curr, to_curr, reply, clock)
                 after == [exchange_rates |-> c.exchange_rates, last_update |-> c.last_update]
             IN  IF c.raised # ""
                 THEN Handled(after, f, None, c.raised, <<>>, c.gets, c.fetched)
                 ELSE IF c.ret[1] # None
                 THEN LET result == c.ret[1][1]
                          saved  == save_conversion(f, result)
                      IN  IF saved.raised # ""
                          THEN Handled(after, saved.file, None, saved.raised, <<result>>, c.gets, c.fetched)
                          ELSE Handled(after, saved.file,
                                       Some([success |-> TRUE, result |-> result,
                                             popular_rates |-> get_popular_rates(after, from_curr),
                                             last_update |-> after.last_update]),
                                       "", <<result>>, c.gets, c.fetched)
                 ELSE Handled(after, f, Some([success |-> FALSE, error |-> c.ret[2]]),
                              "", <<>>, c.gets, c.fetched)

\* do_GET, path /api/history
history_response(f) == load_history(f)

Self == [exchange_rates |-> exchange_rates, last_update |-> last_update]

Done(op, args, ret, raised, saves, gets, fetched) ==
    [op |-> op, args |-> args, pre |-> file, ret |-> ret, raised |-> raised,
     saves |-> saves, gets |-> gets, fetched |-> fetched]

(***************************************************************************)
(* Requests                                                                *)
(***************************************************************************)
ApiConvert(query, reply, clock) ==
    LET h == handle_convert(Self, file, query, reply, clock)
    IN  /\ file' = h.file
        /\ exchange_rates' = h.exchange_rates
        /\ last_update' = h.last_update
        /\ last' = Done("api_convert", [query |-> query, reply |-> reply, clock |-> clock],
                        h.resp, h.raised, h.saves, h.gets, h.fetched)

ApiHistory ==
    /\ last' = Done("api_history", <<>>, Some(history_response(file)), "", <<>>, <<>>, None)
    /\ UNCHANGED <<file, exchange_rates, last_update>>

ApiClear ==
    /\ file' = clear_history(file).file
    /\ last' = Done("api_clear", <<>>, Some([success |-> TRUE]), "", <<>>, <<>>, None)
    /\ UNCHANGED <<exchange_rates, last_update>>

ApiCurrencies ==
    /\ last' = Done("api_currencies", <<>>, Some(CURRENCIES), "", <<>>, <<>>, None)
    /\ UNCHANGED <<file, exchange_rates, last_update>>

(***************************************************************************)
(* Direct calls of HistoryManager                                          *)
(***************************************************************************)
CallLoad ==
    /\ last' = Done("load_history", <<>>, Some(load_history(file)), "", <<>>, <<>>, None)
    /\ UNCHANGED <<file, exchange_rates, last_update>>

CallSave(conversion) ==
    LET s == save_conversion(file, conversion)
    IN  /\ file' = s.file
        /\ last' = Done("save_conversion", conversion,
                        IF s.raised = "" THEN Some(s.ret) ELSE None,
                        s.raised, <<conversion>>, <<>>, None)
        /\ UNCHANGED <<exchange_rates, last_update>>

CallClear ==
    LET c == clear_history(file)
    IN  /\ file' = c.file
        /\ last' = Done("clear_history", <<>>, Some(c.ret), "", <<>>, <<>>, None)
        /\ UNCHANGED <<exchange_rates, last_update>>

(***************************************************************************)
(* Inputs                                                                  *)
(***************************************************************************)
NoUpdate == [src |-> "none", val |-> 0]

Started ==
    [op |-> "init", args |-> <<>>, pre |-> Absent, ret |-> None, raised |-> "",
     saves |-> <<>>, gets |-> <<>>, fetched |-> None]

\* the long-running server: default amount and base, two targets, a provider
\* whose KRW rate moves, one clock reading
Queries == {[amount |-> <<>>, from |-> <<>>, to |-> t] : t \in {<<>>, <<"CAD">>}}

Replies ==
    {Reply("ok", "full", <<7>>), Reply("ok", "sparse", <<7>>),
     Reply("timeout", "full", None), Reply("no_rates", "full", None)}

Clocks == {<<1, 1>>}

Conversions ==
    {ConversionRecord(Float(1), "USD", "KRW", ProviderRates("USD", v)["KRW"],
                      Round(Float(1) * ProviderRates("USD", v)["KRW"], NDIGITS), 1)
       : v \in {"full", "sparse"}}

\* single requests: every amount, base, target and provider reply
WideQueries ==
    {[amount |-> a, from |-> f, to |-> t] :
        a \in {<<>>, <<NotANumber>>, <<Number(0 - 250)>>, <<Number(0)>>, <<Number(Float(100))>>},
        f \in {<<>>, <<"EUR">>},
        t \in {<<>>, <<"CAD">>, <<"SEK">>, <<"GBP">>}}

WideReplies ==
    {Reply("ok", "full", <<7>>), Reply("ok", "full", None),
     Reply("ok", "sparse", <<7>>),
     Reply("timeout", "full", None), Reply("connection", "full", None),
     Reply("http_error", "full", None),
     Reply("not_json", "full", None),
     Reply("not_object", "full", None), Reply("no_rates", "full", None)}

WideClocks == {<<2, 3>>}

RECURSIVE Repeat(_, _)
Repeat(x, n) == IF n = 0 THEN <<>> ELSE <<x>> \o Repeat(x, n - 1)

RECURSIVE SeqsUpTo(_, _)
SeqsUpTo(S, n) ==
    IF n = 0 THEN {<<>>}
    ELSE LET shorter == SeqsUpTo(S, n - 1)
         IN  shorter \cup {<<x>> \o s : x \in S, s \in {t \in shorter : Len(t) = n - 1}}

(***************************************************************************)
(* Spec: the server from its start, the history file absent                *)
(***************************************************************************)
Init ==
    /\ file = Absent
    /\ exchange_rates = EmptyDict
    /\ last_update = NoUpdate
    /\ last = Started
    /\ steps = 0

Next ==
    \/ \E q \in Queries, r \in Replies, c \in Clocks : ApiConvert(q, r, c) /\ UNCHANGED steps
    \/ ApiHistory /\ UNCHANGED steps
    \/ ApiClear /\ UNCHANGED steps
    \/ ApiCurrencies /\ UNCHANGED steps
    \/ CallLoad /\ UNCHANGED steps
    \/ \E conversion \in Conversions : CallSave(conversion) /\ UNCHANGED steps
    \/ CallClear /\ UNCHANGED steps

Spec == Init /\ [][Next]_vars

(***************************************************************************)
(* SpecRequest: MaxRequests requests of any kind to a server that has      *)
(* served before: a history of none, some or HISTORY_LIMIT records and the *)
(* rate table of an earlier request.                                       *)
(***************************************************************************)
InitRequest ==
    /\ file \in {Absent} \cup {JsonDump(Repeat(c, n)) : c \in Conversions, n \in {1, HISTORY_LIMIT}}
    /\ \/ exchange_rates = EmptyDict /\ last_update = NoUpdate
       \/ exchange_rates = RatesUSD /\ last_update = [src |-> "provider", val |-> 5]
    /\ last = [Started EXCEPT !.pre = file]
    /\ steps = 0

Counted == steps < MaxRequests /\ steps' = steps + 1

NextRequest ==
    \/ Counted /\ \E q \in WideQueries, r \in WideReplies, c \in WideClocks : ApiConvert(q, r, c)
    \/ Counted /\ ApiHistory
    \/ Counted /\ ApiClear

SpecRequest == InitRequest /\ [][NextRequest]_vars

(***************************************************************************)
(* SpecStore: HistoryManager on any history file: absent, not JSON, a JSON *)
(* value that is not an array, or an array of records.                     *)
(***************************************************************************)
InitStore ==
    /\ file \in {Absent,
                 [exists |-> TRUE, kind |-> "invalid", items |-> <<>>],
                 [exists |-> TRUE, kind |-> "object", items |-> <<>>]}
                \cup {JsonDump(h) : h \in SeqsUpTo(Conversions, MaxInitLen)}
    /\ exchange_rates = EmptyDict
    /\ last_update = NoUpdate
    /\ last = [Started EXCEPT !.pre = file]
    /\ steps = 0

NextStore ==
    \/ CallLoad /\ UNCHANGED steps
    \/ \E conversion \in Conversions : CallSave(conversion) /\ UNCHANGED steps
    \/ CallClear /\ UNCHANGED steps

SpecStore == InitStore /\ [][NextStore]_vars

(***************************************************************************)
(* Properties                                                              *)
(***************************************************************************)
IsConvert == last.op = "api_convert"

Succeeded == IsConvert /\ last.ret # None /\ last.ret[1].success

FetchOk == IsConvert /\ last.fetched # None /\ last.fetched[1]

FetchFailed == IsConvert /\ last.fetched # None /\ ~last.fetched[1]

QueryFrom == IF last.args.query.from = <<>> THEN "USD" ELSE last.args.query.from[1]

QueryTo == IF last.args.query.to = <<>> THEN "KRW" ELSE last.args.query.to[1]

QueryAmount ==
    IF last.args.query.amount = <<>> THEN Float(DEFAULT_AMOUNT) ELSE last.args.query.amount[1].val

\* the table the provider returned to this request
FetchedTable == ProviderRates(QueryFrom, last.args.reply.variant)

Abs(n) == IF n < 0 THEN 0 - n ELSE n

\* r (hundredths) is the multiple of 0.01 nearest to p (ten-thousandths), the
\* even one of the two when p is halfway
IsRounded(r, p) ==
    /\ 2 * Abs(100 * r - p) <= 100
    /\ 2 * Abs(100 * r - p) = 100 => r % 2 = 0

\* C1: starting from an absent history file, after any sequence of requests
\* and of HistoryManager calls the persisted log never holds more than
\* HISTORY_LIMIT records.
C1_HistoryNeverExceedsLimit ==
    /\ file.kind \in {"none", "array"}
    /\ Len(file.items) <= HISTORY_LIMIT
    /\ Len(load_history(file).items) <= HISTORY_LIMIT

C1_Witness ==
    /\ last.op \in {"save_conversion", "api_convert"}
    /\ last.saves # <<>>
    /\ Len(last.pre.items) = HISTORY_LIMIT
    /\ Len(file.items) = HISTORY_LIMIT

\* C2: save_conversion(record) leaves, and returns, the record followed by the
\* previously persisted records in their order, cut to the first
\* HISTORY_LIMIT: only the oldest record is evicted.
C2_SavePrependsAndEvictsOldest ==
    (last.op \in {"save_conversion", "api_convert"} /\ last.saves # <<>>) =>
        LET old == last.pre.items
            new == file.items
        IN  /\ file.exists /\ file.kind = "array"
            /\ Len(new) = IF Len(old) < HISTORY_LIMIT THEN Len(old) + 1 ELSE HISTORY_LIMIT
            /\ new[1] = last.saves[1]
            /\ \A i \in 2..Len(new) : new[i] = old[i - 1]
            /\ last.op = "save_conversion" => last.ret = Some(PyList(new))

C2_Witness ==
    /\ last.op = "save_conversion"
    /\ Len(last.pre.items) = HISTORY_LIMIT
    /\ last.pre.items[HISTORY_LIMIT] # last.pre.items[HISTORY_LIMIT - 1]
    /\ last.saves[1] # last.pre.items[1]
    /\ Len(file.items) = HISTORY_LIMIT

\* C3: when fetch_exchange_rates returns a failure, the response of
\* /api/convert is a failure carrying the message of fetch_exchange_rates,
\* save_conversion is not called and the history file is as before.
C3_FetchFailureSavesNothing ==
    /\ FetchFailed =>
            /\ last.ret = Some([success |-> FALSE, error |-> last.fetched[2]])
            /\ last.fetched[2][1] = "Error fetching rates: "
    /\ (IsConvert /\ last.gets # <<>> /\ ~FetchOk) =>
            /\ last.saves = <<>>
            /\ file = last.pre

C3_Witness ==
    /\ FetchFailed
    /\ last.ret # None
    /\ Len(last.pre.items) > 0
    /\ file = last.pre

\* C4: convert fails with "not found" exactly when the target is not a key of
\* the table fetched by the same call, whether or not it is in CURRENCIES;
\* on that failure nothing is saved.
C4_UnknownTargetIffAbsentFromFetchedTable ==
    FetchOk =>
        IF QueryTo \notin DOMAIN FetchedTable
        THEN /\ last.ret = Some([success |-> FALSE, error |-> <<"Currency not found", QueryTo>>])
             /\ last.saves = <<>>
             /\ file = last.pre
        ELSE Succeeded

C4_Witness ==
    /\ FetchOk
    /\ QueryTo \in CURRENCIES
    /\ QueryTo \notin DOMAIN FetchedTable
    /\ ~last.ret[1].success
    /\ Len(last.pre.items) > 0

\* C5: after a /api/convert that succeeded, the response of /api/history is a
\* log whose first element is the record of the convert response.
C5_HistoryStartsWithConvertedRecord ==
    Succeeded =>
        LET h == history_response(file)
        IN  /\ h.type = "list"
            /\ Len(h.items) >= 1
            /\ h.items[1] = last.ret[1].result

C5_Witness ==
    /\ Succeeded
    /\ Len(last.pre.items) > 0
    /\ last.pre.items[1] # last.ret[1].result
    /\ history_response(file).items[1] = last.ret[1].result

\* C6: load_history returns an empty sequence, and does not raise, whenever
\* the history file is missing or its content is not a JSON array of records.
C6_LoadOfBadFileIsEmpty ==
    (last.op = "load_history" /\ (~last.pre.exists \/ last.pre.kind # "array")) =>
        last.raised = "" /\ last.ret = Some(PyList(<<>>))

\* C7: fetch_exchange_rates returns an error result, and does not raise, for
\* every provider failure (timeout, error status, body that is not JSON, body
\* without rates), after exactly one request.
C7_FetchReturnsErrorOnEveryFailure ==
    (IsConvert /\ last.gets # <<>>
        /\ last.args.reply.kind \in {"timeout", "http_error", "not_json", "no_rates"}) =>
        /\ Len(last.gets) = 1
        /\ last.raised = ""
        /\ FetchFailed

\* C8: for every amount, negative and zero included, and every target in the
\* fetched table, /api/convert succeeds with a record whose rate is the
\* table's value, whose result is amount * rate rounded to NDIGITS decimals,
\* and which is persisted.
C8_ConvertRoundsProduct ==
    (FetchOk /\ QueryTo \in DOMAIN FetchedTable) =>
        /\ Succeeded
        /\ LET rec == last.ret[1].result
           IN  /\ rec.amount = QueryAmount
               /\ rec.from = QueryFrom
               /\ rec.to = QueryTo
               /\ rec.rate = FetchedTable[QueryTo]
               /\ IsRounded(rec.result, QueryAmount * FetchedTable[QueryTo])
               /\ last.saves = <<rec>>
               /\ file.kind = "array" /\ Len(file.items) >= 1 /\ file.items[1] = rec

C8_Witness ==
    /\ Succeeded
    /\ QueryAmount < 0
    /\ (QueryAmount * FetchedTable[QueryTo]) % 100 = 50
    /\ file.items[1] = last.ret[1].result

\* C9: after clear_history, load_history returns an empty sequence, whatever
\* the history file held and whether or not it existed.
C9_ClearThenLoadIsEmpty ==
    last.op = "clear_history" =>
        /\ last.ret = Some(PyList(<<>>))
        /\ load_history(file) = PyList(<<>>)

C9_Witness ==
    /\ last.op = "clear_history"
    /\ last.pre.exists
    /\ Len(last.pre.items) > 0
    /\ load_history(file) = PyList(<<>>)

\* C10: the popular rates of a /api/convert response are the rates, in the
\* table fetched for the request's base currency, of the shortlisted
\* currencies other than the base that the table holds.
C10_PopularRatesAreShortlistInFetchedTable ==
    Succeeded =>
        LET popular   == last.ret[1].popular_rates
            shortlist == {"EUR", "GBP", "JPY", "KRW", "CNY", "AUD"}
        IN  /\ DOMAIN popular = (shortlist \ {QueryFrom}) \cap DOMAIN FetchedTable
            /\ \A c \in DOMAIN popular : popular[c] = FetchedTable[c]

C10_Witness ==
    /\ Succeeded
    /\ QueryFrom \in DOMAIN FetchedTable
    /\ QueryFrom = "EUR"
    /\ "JPY" \notin DOMAIN FetchedTable
    /\ DOMAIN last.ret[1].popular_rates = {"GBP", "KRW"}

====
